---------------------------- MODULE Spec2Model ----------------------------
(***************************************************************************)
(* A model of statisticalNLP.py: the article recommender.                  *)
(*                                                                         *)
(* Indices are 0-based as in the source.  A Python list is a TLA+ sequence *)
(* (1-based), so element i of a list s is s[i + 1].                        *)
(***************************************************************************)
EXTENDS Integers, Sequences, FiniteSets, TLC

(***************************************************************************)
(* Bounds of the model.                                                    *)
(***************************************************************************)
\* a corpus is a free head of at most MaxHead rows ...
MaxHead == 2
\* ... followed by at most MaxTail copies of one row
MaxTail == 11
\* the largest n generate_recommendations is called with in SpecRec
MaxN == 2
\* the number of articles the session displays before it only re-prompts
MaxRounds == 2
\* NUM_RECS (line 24) is 100 in the source; the model scales it down so that
\* the samples of NUM_RECS distinct indices can be enumerated
NUM_RECS == 2

(***************************************************************************)
(* Program constants.                                                      *)
(***************************************************************************)
\* line 95: [:n + 10]
CandidateBuffer == 10
\* line 99: [:2]
NoveltyCount == 2
\* line 49: row["text"][:30]
TitleChars == 30

(***************************************************************************)
(* Python values.                                                          *)
(***************************************************************************)
\* Python's None, where a title is expected
None == "<None>"

Min(a, b) == IF a <= b THEN a ELSE b

\* s[:k] of a list, k >= 0
Take(s, k) == SubSeq(s, 1, Min(k, Len(s)))

\* list(range(k))
RangeList(k) == [i \in 1..k |-> i - 1]

\* s[i] of a list: a negative i counts from the end
Item(s, i) == IF i < 0 THEN s[Len(s) + i + 1] ELSE s[i + 1]

\* x in s, for a list s
InList(x, s) == \E k \in 1..Len(s) : s[k] = x

(***************************************************************************)
(* The texts of the model, each with its length in characters and the      *)
(* tokens TfidfVectorizer's default tokenizer finds in it.                 *)
(***************************************************************************)
Texts == {"cats like milk", "cats travel", ""}

TextLen(t) ==
  CASE t = "cats like milk" -> 14
    [] t = "cats travel" -> 11
    [] t = "" -> 0

Tokens(t) ==
  CASE t = "cats like milk" -> {"cats", "like", "milk"}
    [] t = "cats travel" -> {"cats", "travel"}
    [] t = "" -> {}

\* the rows a data file holds: title and text as read (a title may be None)
Rows ==
  { [title |-> "A", text |-> "cats like milk"],
    [title |-> "B", text |-> "cats like milk"],
    [title |-> "A", text |-> ""],
    [title |-> None, text |-> "cats travel"] }

\* k copies of row r
Copies(r, k) == [i \in 1..k |-> r]

\* the sequences of rows of length exactly k
RECURSIVE RowSeqs(_)
RowSeqs(k) ==
  IF k = 0 THEN { <<>> }
  ELSE { Append(s, r) : s \in RowSeqs(k - 1), r \in Rows }

\* the contents a data file can have in the model
Corpora ==
  { h \o Copies(r, k) :
      h \in UNION { RowSeqs(j) : j \in 0..MaxHead }, r \in Rows, k \in 0..MaxTail }

(***************************************************************************)
(* load_articles (lines 26-54), called without num.                        *)
(***************************************************************************)
\* text[:30]: every text of the model is shorter than 30 characters
Prefix(t, k) == IF TextLen(t) <= k THEN t ELSE "<longer>"

LoadArticles(rows) ==
  [i \in 1..Len(rows) |->
     IF rows[i].title = None
     THEN [title |-> Prefix(rows[i].text, TitleChars), text |-> rows[i].text]
     ELSE rows[i]]

(***************************************************************************)
(* vectorize_documents and calculate_similarity (lines 56-80).  The        *)
(* weights are sklearn's; the model keeps what the ranking reads: the      *)
(* cosine of the term-presence vectors, squared and scaled to 0..100, and  *)
(* 0 for a document without terms (a zero vector).                         *)
(***************************************************************************)
Vocabulary(arts) == UNION { Tokens(arts[i].text) : i \in 1..Len(arts) }

\* fit_transform raises ValueError on an empty vocabulary
VectorizeFails(arts) == Vocabulary(arts) = {}

Cosine(a, b) ==
  LET A == Tokens(a)
      B == Tokens(b)
      c == Cardinality(A \cap B)
  IN  IF A = {} \/ B = {} THEN 0
      ELSE (100 * c * c) \div (Cardinality(A) * Cardinality(B))

TextSimilarity == [a \in Texts |-> [b \in Texts |-> Cosine(a, b)]]

CalculateSimilarity(arts) ==
  [i \in 0..(Len(arts) - 1) |->
     [j \in 0..(Len(arts) - 1) |->
        TextSimilarity[arts[i + 1].text][arts[j + 1].text]]]

(***************************************************************************)
(* np.argsort (line 95).  Its default kind is quicksort, which is not      *)
(* stable: indices with equal keys come out in an order the build and the  *)
(* array size decide.  The model keeps two such orders: equal keys in      *)
(* ascending index order (what a stable sort gives) and in descending      *)
(* index order.                                                            *)
(***************************************************************************)
TieOrders == {"ascending", "descending"}

ArgSort(keys, tie) ==
  SortSeq(RangeList(Cardinality(DOMAIN keys)),
          LAMBDA i, j :
            \/ keys[i] < keys[j]
            \/ /\ keys[i] = keys[j]
               /\ IF tie = "ascending" THEN i < j ELSE i > j)

(***************************************************************************)
(* generate_recommendations (lines 82-100).                                *)
(***************************************************************************)
\* line 95 without the buffer: [:n]
SimilarArticlesNoBuffer(last_choice, n, S, tie) ==
  Take(ArgSort([i \in DOMAIN S[last_choice] |-> -S[last_choice][i]], tie), n)

\* line 95 without the negation: np.argsort(similarity_matrix[last_choice])
SimilarArticlesAscending(last_choice, n, S, tie) ==
  Take(ArgSort([i \in DOMAIN S[last_choice] |-> S[last_choice][i]], tie),
       n + CandidateBuffer)

\* line 95
SimilarArticles(last_choice, n, S, tie) ==
  Take(ArgSort([i \in DOMAIN S[last_choice] |-> -S[last_choice][i]], tie),
       n + CandidateBuffer)

\* line 97
FilteredArticles(last_choice, n, arts, S, tie) ==
  LET Keep(i) == /\ i # last_choice
                 /\ arts[i + 1].title # arts[last_choice + 1].title
  IN  Take(SelectSeq(SimilarArticles(last_choice, n, S, tie), Keep), n)

\* line 99 over range(1, len(articles))
DissimilarArticlesFromOne(filtered, arts) ==
  LET Unused(i) == ~InList(i, filtered)
  IN  Take(SelectSeq(Tail(RangeList(Len(arts))), Unused), NoveltyCount)

\* line 99 without its condition: list(range(len(articles)))[:2]
DissimilarArticlesUnfiltered(filtered, arts) ==
  Take(RangeList(Len(arts)), NoveltyCount)

\* line 99 over range(len(articles) + 1), taken from its end
DissimilarArticlesPastEnd(filtered, arts) ==
  LET Unused(i) == ~InList(i, filtered)
      all == SelectSeq(RangeList(Len(arts) + 1), Unused)
  IN  SubSeq(all, Len(all) - Min(NoveltyCount, Len(all)) + 1, Len(all))

\* line 99
DissimilarArticles(filtered, arts) ==
  LET Unused(i) == ~InList(i, filtered)
  IN  Take(SelectSeq(RangeList(Len(arts)), Unused), NoveltyCount)


(***************************************************************************)
(* The state.  pc is the input() call the program is blocked in, or how    *)
(* it ended.  last_choice, n, filtered_articles and dissimilar_articles    *)
(* are the arguments and the locals of the latest call of                  *)
(* generate_recommendations; printed holds the messages of the latest      *)
(* step, shown the list display_recommendations printed last, ndisplay     *)
(* and ncalls count the calls of display_article and of                    *)
(* generate_recommendations.                                               *)
(***************************************************************************)
VARIABLES pc, articles, similarity_matrix, recs, user_choice, article_index,
          printed, shown, ndisplay, ncalls,
          last_choice, n, filtered_articles, dissimilar_articles

vars == << pc, articles, similarity_matrix, recs, user_choice, article_index,
           printed, shown, ndisplay, ncalls,
           last_choice, n, filtered_articles, dissimilar_articles >>

call_vars == << last_choice, n, filtered_articles, dissimilar_articles >>

\* the call generate_recommendations(lc, k, articles, similarity_matrix) with
\* argsort breaking ties as tie says: its locals, and its return value
Call(lc, k, tie) ==
  LET filtered == FilteredArticles(lc, k, articles, similarity_matrix, tie)
      dissimilar == DissimilarArticles(filtered, articles)
  IN  /\ last_choice' = lc
      /\ n' = k
      /\ filtered_articles' = filtered
      /\ dissimilar_articles' = dissimilar
      /\ recs' = filtered \o dissimilar
      /\ ncalls' = ncalls + 1

(***************************************************************************)
(* SpecRec: generate_recommendations as a function of its arguments.       *)
(* Init draws a corpus as load_articles returns it, its similarity matrix, *)
(* a valid pivot and n >= 0; Recommend is the call.                        *)
(***************************************************************************)
InitRec ==
  /\ pc = "call"
  /\ articles \in { LoadArticles(c) : c \in Corpora }
  /\ Len(articles) > 0
  /\ ~VectorizeFails(articles)
  /\ similarity_matrix = CalculateSimilarity(articles)
  /\ last_choice \in 0..(Len(articles) - 1)
  /\ n \in (0..MaxN) \cup {5}
  /\ recs = <<>>
  /\ filtered_articles = <<>>
  /\ dissimilar_articles = <<>>
  /\ user_choice = <<>>
  /\ article_index = None
  /\ printed = <<>>
  /\ shown = <<>>
  /\ ndisplay = 0
  /\ ncalls = 0

Recommend ==
  /\ pc = "call"
  /\ \E tie \in TieOrders : Call(last_choice, n, tie)
  /\ pc' = "return"
  /\ UNCHANGED << articles, similarity_matrix, user_choice, article_index,
                  printed, shown, ndisplay >>

NextRec == Recommend

SpecRec == InitRec /\ [][NextRec]_vars


(***************************************************************************)
(* Lines of input: a line is the sequence of its characters.               *)
(***************************************************************************)
Digits == {"0", "1", "2", "3", "4", "5", "6", "7", "8", "9"}

DigitValue(c) ==
  CASE c = "0" -> 0 [] c = "1" -> 1 [] c = "2" -> 2 [] c = "3" -> 3
    [] c = "4" -> 4 [] c = "5" -> 5 [] c = "6" -> 6 [] c = "7" -> 7
    [] c = "8" -> 8 [] c = "9" -> 9

\* the lines the user types at "Your choice?"
Lines ==
  { <<"q">>, <<"Q">>, <<"q", " ">>, <<>>, <<"x">>,
    <<"0">>, <<"1">>, <<"2">>, <<"3">>, <<"4">>, <<"5">>, <<"9">>,
    <<"1", "0">>, <<"-", "1">>, <<"+", "2">>, <<" ", "1">> }

\* str.lower
Lower(line) == [k \in 1..Len(line) |-> IF line[k] = "Q" THEN "q" ELSE line[k]]

\* str.strip, as int() applies it
RECURSIVE LStrip(_)
LStrip(line) ==
  IF line # <<>> /\ Head(line) = " " THEN LStrip(Tail(line)) ELSE line

RECURSIVE RStrip(_)
RStrip(line) ==
  IF line # <<>> /\ line[Len(line)] = " "
  THEN RStrip(SubSeq(line, 1, Len(line) - 1))
  ELSE line

Strip(line) == RStrip(LStrip(line))

\* the value of a string of decimal digits
RECURSIVE Decimal(_)
Decimal(ds) ==
  IF ds = <<>> THEN 0
  ELSE 10 * Decimal(SubSeq(ds, 1, Len(ds) - 1)) + DigitValue(ds[Len(ds)])

\* int(line): [ok |-> FALSE] where it raises ValueError
ParseInt(line) ==
  LET t == Strip(line)
      signed == t # <<>> /\ Head(t) \in {"+", "-"}
      ds == IF signed THEN Tail(t) ELSE t
  IN  IF ds = <<>> \/ \E k \in 1..Len(ds) : ds[k] \notin Digits
      THEN [ok |-> FALSE]
      ELSE [ok |-> TRUE,
            value |-> IF signed /\ Head(t) = "-" THEN -Decimal(ds) ELSE Decimal(ds)]

(***************************************************************************)
(* random.sample(range(size), k) (line 163): the lists of k distinct       *)
(* indices; it raises ValueError when k > size.                            *)
(***************************************************************************)
RECURSIVE Samples(_, _)
Samples(size, k) ==
  IF k = 0 THEN { <<>> }
  ELSE UNION { { Append(s, x) : x \in { y \in 0..(size - 1) : ~InList(y, s) } } :
               s \in Samples(size, k - 1) }

\* the data files of a session: at most NUM_RECS + 1 rows
SessionCorpora == { c \in Corpora : Len(c) <= NUM_RECS + 1 }

(***************************************************************************)
(* main (lines 138-187).  An action is what main does from one input()     *)
(* call returning to the next input() call, or to its end.                 *)
(***************************************************************************)
\* line 113
RecommendationsHeader == "Here are some new recommendations for you:"

\* line 182
OutOfRangeMessage == "Article number out of range. Please try again."

Init ==
  /\ pc = "choose"
  /\ articles = <<>>
  /\ similarity_matrix = <<>>
  /\ recs = <<>>
  /\ user_choice = <<>>
  /\ article_index = None
  /\ printed = <<>>
  /\ shown = <<>>
  /\ ndisplay = 0
  /\ ncalls = 0
  /\ last_choice = None
  /\ n = None
  /\ filtered_articles = <<>>
  /\ dissimilar_articles = <<>>

\* lines 147-157: a choice other than '1' and '2'
InvalidDataset ==
  /\ pc = "choose"
  /\ \E choice \in {"", "3", "q"} : printed' = << "Invalid choice. Exiting program." >>
  /\ pc' = "terminated"
  /\ UNCHANGED << articles, similarity_matrix, recs, user_choice, article_index,
                  shown, ndisplay, ncalls >>
  /\ UNCHANGED call_vars

\* lines 147-163 where fit_transform or sample raises ValueError
LoadFails ==
  /\ pc = "choose"
  /\ \E choice \in {"1", "2"}, rows \in SessionCorpora :
       LET arts == LoadArticles(rows)
       IN  /\ VectorizeFails(arts) \/ NUM_RECS > Len(arts)
           /\ articles' = arts
  /\ pc' = "crashed"
  /\ printed' = << "ValueError" >>
  /\ UNCHANGED << similarity_matrix, recs, user_choice, article_index,
                  shown, ndisplay, ncalls >>
  /\ UNCHANGED call_vars

\* lines 147-166: the dataset is loaded, the first list is sampled and shown
StartSession ==
  /\ pc = "choose"
  /\ \E choice \in {"1", "2"}, rows \in SessionCorpora :
       LET arts == LoadArticles(rows)
       IN  /\ ~VectorizeFails(arts)
           /\ NUM_RECS <= Len(arts)
           /\ articles' = arts
           /\ similarity_matrix' = CalculateSimilarity(arts)
           /\ recs' \in Samples(Len(arts), NUM_RECS)
  /\ pc' = "browsing"
  /\ printed' = << RecommendationsHeader >>
  /\ shown' = recs'
  /\ UNCHANGED << user_choice, article_index, ndisplay, ncalls >>
  /\ UNCHANGED call_vars

\* line 167
IsQuit(line) == Lower(line) = <<"q">>

\* lines 171-178 without user_choice < 0
IsRejectedNoLowerBound(line, list) ==
  LET v == ParseInt(line)
  IN  IF v.ok THEN v.value - 1 >= Len(list) ELSE TRUE

\* lines 171-178: int() raises, or the number is not one of the list
IsRejected(line, list) ==
  LET v == ParseInt(line)
  IN  IF v.ok THEN v.value - 1 < 0 \/ v.value - 1 >= Len(list) ELSE TRUE

\* lines 172 and 180 with the 1 subtracted twice
SelectedIndexShifted(line, list) == Item(list, ParseInt(line).value - 2)

\* lines 172 and 180: recs[int(user_choice) - 1]
SelectedIndex(line, list) == Item(list, ParseInt(line).value - 1)

\* lines 167-169
Quit ==
  /\ pc = "browsing"
  /\ \E line \in Lines :
       /\ IsQuit(line)
       /\ user_choice' = line
  /\ printed' = << "Goodbye!" >>
  /\ pc' = "terminated"
  /\ UNCHANGED << articles, similarity_matrix, recs, article_index, shown,
                  ndisplay, ncalls >>
  /\ UNCHANGED call_vars

\* lines 171-178, then 165-166 again
RejectInput ==
  /\ pc = "browsing"
  /\ \E line \in Lines :
       /\ ~IsQuit(line)
       /\ IsRejected(line, recs)
       /\ user_choice' = line
       /\ printed' = << IF ParseInt(line).ok
                        THEN "Invalid choice. Please try again."
                        ELSE "Invalid input. Please enter a number.",
                        RecommendationsHeader >>
  /\ shown' = recs
  /\ pc' = "browsing"
  /\ UNCHANGED << articles, similarity_matrix, recs, article_index, ndisplay,
                  ncalls >>
  /\ UNCHANGED call_vars

\* lines 171-186: a number of the list; the article is displayed, unless its
\* index is out of range (lines 181-183)
Select ==
  /\ pc = "browsing"
  /\ ndisplay < MaxRounds
  /\ \E line \in Lines :
       /\ ~IsQuit(line)
       /\ ~IsRejected(line, recs)
       /\ user_choice' = line
       /\ LET index == SelectedIndex(line, recs)
          IN  /\ article_index' = index
              /\ IF index < 0 \/ index >= Len(articles)
                 THEN /\ printed' = << OutOfRangeMessage, RecommendationsHeader >>
                      /\ pc' = "browsing"
                      /\ ndisplay' = ndisplay
                 ELSE /\ printed' = << Item(articles, index).title,
                                       Item(articles, index).text >>
                      /\ pc' = "reading"
                      /\ ndisplay' = ndisplay + 1
  /\ shown' = recs
  /\ UNCHANGED << articles, similarity_matrix, recs, ncalls >>
  /\ UNCHANGED call_vars

\* lines 186-187, then 165-166
Acknowledge ==
  /\ pc = "reading"
  /\ \E tie \in TieOrders : Call(article_index, NUM_RECS, tie)
  /\ pc' = "browsing"
  /\ printed' = << RecommendationsHeader >>
  /\ shown' = recs'
  /\ UNCHANGED << articles, similarity_matrix, user_choice, article_index,
                  ndisplay >>

Next ==
  \/ InvalidDataset
  \/ LoadFails
  \/ StartSession
  \/ Quit
  \/ RejectInput
  \/ Select
  \/ Acknowledge

Spec == Init /\ [][Next]_vars

(***************************************************************************)
(* What the claims about generate_recommendations speak of.                *)
(***************************************************************************)
Returned == pc = "return"

Indices == 0..(Len(articles) - 1)

Title(i) == articles[i + 1].title

\* S[pivot][i]
PivotSimilarity(i) == similarity_matrix[last_choice][i]

\* the documents step 2 may keep: not the pivot, and not of its title
Eligible == { i \in Indices : i # last_choice /\ Title(i) # Title(last_choice) }

\* the documents step 2 removes: the pivot and the documents of its title
Excluded == Indices \ Eligible

\* the corpus indices that do not occur in the step-2 list
Unused == { i \in Indices : ~InList(i, filtered_articles) }

NoRepeats(s) == \A a, b \in 1..Len(s) : s[a] = s[b] => a = b

\* C1: the list generate_recommendations returns never contains the pivot,
\* in its similarity part or in its novelty part.
C1_NeverPivot ==
  Returned => ~InList(last_choice, recs)

\* C2: when some document has a title other than the pivot's, no returned
\* index (similarity part or novelty part) has the pivot's title.
C2_NeverPivotTitle ==
  (Returned /\ \E i \in Indices : Title(i) # Title(last_choice))
    => \A k \in 1..Len(recs) : Title(recs[k]) # Title(last_choice)

\* C3: the result is P ++ Q with |P| <= n and |Q| <= 2, Q strictly ascending
\* and made of the min(2, number of indices not in P) smallest corpus
\* indices that do not occur in P.
C3_NoveltyPart ==
  Returned =>
    /\ recs = filtered_articles \o dissimilar_articles
    /\ Len(filtered_articles) <= n
    /\ Len(dissimilar_articles) <= 2
    /\ Len(recs) <= n + 2
    /\ Len(dissimilar_articles) = Min(2, Cardinality(Unused))
    /\ \A k \in 1..Len(dissimilar_articles) :
         /\ dissimilar_articles[k] \in Unused
         /\ Cardinality({ u \in Unused : u < dissimilar_articles[k] }) = k - 1

\* C3's case: the step-2 list holds index 0, so the novelty part has to skip
\* it, and two novelty indices are appended
C3_Witness ==
  /\ Returned
  /\ InList(0, filtered_articles)
  /\ Len(filtered_articles) = n
  /\ Len(dissimilar_articles) = 2
  /\ dissimilar_articles[1] > 0

\* C4: when every non-pivot document is in the step-2 list, the novelty part
\* is empty and the result has as many entries as there are non-pivot
\* documents (2 documents of distinct titles, pivot 0, n = 5: length 1).
C4_NothingLeftToAdd ==
  (Returned /\ \A i \in Indices : i # last_choice => InList(i, filtered_articles))
    => /\ dissimilar_articles = <<>>
       /\ Len(recs) = Len(articles) - 1

\* C5 as claimed: whenever the corpus has at least n documents that are not
\* the pivot and not of its title, the step-2 list has exactly n entries.
C5_ReachesNWheneverPossible ==
  (Returned /\ Cardinality(Eligible) >= n) => Len(filtered_articles) = n

\* C5 as amended: whenever the corpus has at least n such documents and at
\* most 10 documents, the pivot among them, carry the pivot's title, the
\* step-2 list has exactly n entries.
C5_ReachesNWithinBuffer ==
  (Returned /\ Cardinality(Eligible) >= n /\ Cardinality(Excluded) <= 10)
    => Len(filtered_articles) = n

\* C5's case: the corpus is larger than the n + 10 candidates, a document of
\* the pivot's title ranks above a kept one and is removed, and n >= 1
\* documents are kept
C5_Witness ==
  /\ Returned
  /\ n >= 1
  /\ Cardinality(Eligible) >= n
  /\ Len(articles) > n + 10
  /\ Cardinality(Excluded) >= 2
  /\ Cardinality(Excluded) <= 10
  /\ Len(filtered_articles) = n
  /\ \E i \in Excluded \ {last_choice} :
       PivotSimilarity(i) > PivotSimilarity(filtered_articles[1])

\* C6 as claimed: the step-2 list is in non-increasing order of S[pivot][i],
\* and of two kept indices of equal similarity the smaller comes first.
C6_StableRanking ==
  Returned =>
    \A a, b \in 1..Len(filtered_articles) :
      a < b =>
        /\ PivotSimilarity(filtered_articles[a]) >= PivotSimilarity(filtered_articles[b])
        /\ PivotSimilarity(filtered_articles[a]) = PivotSimilarity(filtered_articles[b])
             => filtered_articles[a] < filtered_articles[b]

\* C6 as amended: the step-2 list is in non-increasing order of S[pivot][i]
\* (the order of kept indices of equal similarity is not fixed).
C6_RankedBySimilarity ==
  Returned =>
    \A a, b \in 1..Len(filtered_articles) :
      a < b =>
        PivotSimilarity(filtered_articles[a]) >= PivotSimilarity(filtered_articles[b])

\* C6's case: kept documents of different similarity to the pivot, the less
\* similar one at the smaller index
C6_Witness ==
  /\ Returned
  /\ Len(filtered_articles) >= 2
  /\ \E a, b \in 1..Len(filtered_articles) :
       /\ a < b
       /\ PivotSimilarity(filtered_articles[a]) > PivotSimilarity(filtered_articles[b])
       /\ filtered_articles[a] > filtered_articles[b]

\* C10: the returned list contains no index more than once: the similarity
\* part and the novelty part have pairwise distinct indices and are disjoint.
C10_NoRepeats ==
  Returned =>
    /\ NoRepeats(filtered_articles)
    /\ NoRepeats(dissimilar_articles)
    /\ \A k \in 1..Len(dissimilar_articles) :
         ~InList(dissimilar_articles[k], filtered_articles)
    /\ NoRepeats(recs)

\* C10's case: both parts are non-empty and a novelty index lies between
\* kept ones
C10_Witness ==
  /\ Returned
  /\ Len(filtered_articles) >= 2
  /\ Len(dissimilar_articles) = 2
  /\ \E a, b \in 1..Len(filtered_articles) :
       /\ filtered_articles[a] < dissimilar_articles[1]
       /\ dissimilar_articles[1] < filtered_articles[b]

(***************************************************************************)
(* What the claims about the session loop speak of.  In a step taken from  *)
(* Browsing, user_choice' is the line that step read.                      *)
(***************************************************************************)
InLoop == pc \in {"browsing", "reading"}

\* the line is the quit token, in either case
QuitToken(line) == line = <<"q">> \/ line = <<"Q">>

\* the line is a number of the displayed list, 1..len(list)
ValidSelection(line, list) ==
  /\ ~QuitToken(line)
  /\ ParseInt(line).ok
  /\ ParseInt(line).value \in 1..Len(list)

\* the line is neither the quit token nor a number of the displayed list
InvalidSelection(line, list) ==
  /\ ~QuitToken(line)
  /\ ~ParseInt(line).ok \/ ParseInt(line).value \notin 1..Len(list)

\* C7: an invalid selection leaves the session state as it is: recs is not
\* modified, no document is displayed, generate_recommendations is not
\* called, and the loop stays in Browsing and shows the same list again.
C7_InvalidSelectionKeepsState ==
  [][ (pc = "browsing" /\ InvalidSelection(user_choice', shown))
        => /\ pc' = "browsing"
           /\ recs' = recs
           /\ shown' = shown
           /\ printed'[Len(printed')] = RecommendationsHeader
           /\ ndisplay' = ndisplay
           /\ ncalls' = ncalls
           /\ UNCHANGED << articles, similarity_matrix, article_index >>
           /\ UNCHANGED call_vars ]_vars

\* C7's case: after a round, a number one past the end of the list was
\* typed and turned down
C7_Witness ==
  /\ pc = "browsing"
  /\ ncalls >= 1
  /\ ParseInt(user_choice).ok
  /\ ParseInt(user_choice).value = Len(recs) + 1
  /\ printed[1] = "Invalid choice. Please try again."

\* C8: a valid selection k of the displayed list moves Browsing to Reading
\* with document recs[k-1] displayed; the acknowledgment moves Reading to
\* Browsing with recs replaced by generate_recommendations(recs[k-1],
\* NUM_RECS, articles, similarity_matrix); no other transition of the loop
\* replaces recs; the quit token ends the loop, and nothing is displayed or
\* computed after it.
C8_SessionTransitions ==
  [][ /\ (pc = "browsing" /\ ValidSelection(user_choice', shown))
        => /\ pc' = "reading"
           /\ article_index' = shown[ParseInt(user_choice').value]
           /\ printed' = << articles[article_index' + 1].title,
                            articles[article_index' + 1].text >>
           /\ ndisplay' = ndisplay + 1
           /\ recs' = recs
           /\ ncalls' = ncalls
      /\ pc = "reading"
        => /\ pc' = "browsing"
           /\ ncalls' = ncalls + 1
           /\ last_choice' = article_index
           /\ n' = NUM_RECS
           /\ recs' = filtered_articles' \o dissimilar_articles'
           /\ shown' = recs'
           /\ ndisplay' = ndisplay
           /\ \E tie \in TieOrders :
                /\ filtered_articles' =
                     FilteredArticles(article_index, NUM_RECS, articles,
                                      similarity_matrix, tie)
                /\ dissimilar_articles' =
                     DissimilarArticles(filtered_articles', articles)
      /\ (InLoop /\ recs' # recs) => pc = "reading"
      /\ (pc = "browsing" /\ QuitToken(user_choice'))
        => pc' = "terminated" /\ ndisplay' = ndisplay /\ ncalls' = ncalls
      /\ pc = "terminated" => UNCHANGED vars ]_vars

\* C8's case: two rounds were played, the second from a list that
\* generate_recommendations returned, and the display shows its entry 2
C8_Witness ==
  /\ pc = "browsing"
  /\ ncalls = 2
  /\ ndisplay = 2
  /\ user_choice = <<"2">>
  /\ last_choice = article_index
  /\ recs = filtered_articles \o dissimilar_articles
  /\ Len(filtered_articles) >= 1

\* C9: in the loop, every element of recs (the initial sample and every list
\* generate_recommendations returned) is a corpus index 0..len(articles)-1,
\* and the 'Article number out of range' branch is never taken.
C9_RecsAreCorpusIndices ==
  pc \in {"browsing", "reading", "terminated"} /\ articles # <<>>
    => /\ \A k \in 1..Len(recs) : recs[k] \in 0..(Len(articles) - 1)
       /\ ~InList(OutOfRangeMessage, printed)

\* C9's case: an article was picked from a list generate_recommendations
\* returned, and is displayed
C9_Witness ==
  /\ pc = "reading"
  /\ ncalls >= 1
  /\ ndisplay = 2
  /\ InList(article_index, recs)
  /\ article_index \in 0..(Len(articles) - 1)

=============================================================================
